---- MODULE Spec2Model ----
(***************************************************************************)
(* A model of scrapy.py: two Selenium scrapers (Amazon, Flipkart) that     *)
(* fill a ProductDetails record from the text of page elements, and the    *)
(* ProductAnalyzer that runs them, quits their drivers and builds the      *)
(* comparison report.                                                      *)
(*                                                                         *)
(* Representation.                                                         *)
(*  - A text is a sequence of tokens; a token is one character ("4", ".",  *)
(*    ",", "-", " ") or an atomic word ("Rs" stands for the rupee sign,    *)
(*    "out", "In stock.", ...).                                            *)
(*  - A float that was parsed from a decimal numeral is the integer        *)
(*    numeral * Scale (three fractional digits).  NaN and the infinities   *)
(*    are outside the modelled numerals.                                   *)
(*  - Time is a logical clock; a timestamp is a clock value.               *)
(***************************************************************************)
EXTENDS Integers, Sequences, FiniteSets, TLC

VARIABLES
    clock,              \* logical time (datetime.now())
    default_timestamp,  \* the default of ProductDetails.timestamp (line 34)
    session,            \* scraper key -> state of self.driver
    opened,             \* scraper key -> number of times a driver was launched
    calls,              \* number of analyze_product calls started
    pc,                 \* position of the program inside analyze_product
    urls,               \* the argument of the current analyze_product call
    i,                  \* index of the loop over urls.items() (line 198)
    results,            \* the local list results (line 196)
    details,            \* the local record of the running scrape_product
    sel,                \* index into price_selectors of the running scrape
    resolved,           \* field -> value assigned by the running scrape
    failed,             \* the step whose exception ended the try block
    firstFault,         \* the first step of the running scrape that failed
    constructedAt,      \* clock value at each ProductDetails construction
    j,                  \* index of the loop over self.scrapers.values()
    quitLog,            \* scraper key -> outcome of driver.quit() in this call
    report,             \* the value returned by the last analyze_product call
    probes              \* price selectors probed by the scrape that ran last

vars == << clock, default_timestamp, session, opened, calls, pc, urls, i,
           results, details, sel, resolved, failed, firstFault,
           constructedAt, j, quitLog, report, probes >>

(***************************************************************************)
(* Bounds                                                                  *)
(***************************************************************************)
MaxCalls == 2
MaxUrls == 2

(***************************************************************************)
(* Text helpers: str.strip, str.replace(c, ''), str.split()[0]             *)
(***************************************************************************)
Scale == 1000

Digits == {"0", "1", "2", "3", "4", "5", "6", "7", "8", "9"}

DigitVal(c) ==
    CASE c = "0" -> 0 [] c = "1" -> 1 [] c = "2" -> 2 [] c = "3" -> 3
      [] c = "4" -> 4 [] c = "5" -> 5 [] c = "6" -> 6 [] c = "7" -> 7
      [] c = "8" -> 8 [] c = "9" -> 9

RECURSIVE LStrip(_)
LStrip(t) ==
    IF t = <<>> THEN t
    ELSE IF Head(t) = " " THEN LStrip(Tail(t)) ELSE t

RECURSIVE RStrip(_)
RStrip(t) ==
    IF t = <<>> THEN t
    ELSE IF t[Len(t)] = " " THEN RStrip(SubSeq(t, 1, Len(t) - 1)) ELSE t

Strip(t) == RStrip(LStrip(t))

Replace(t, c) == SelectSeq(t, LAMBDA x : x # c)

RECURSIVE TakeToken(_)
TakeToken(t) ==
    IF t = <<>> \/ Head(t) = " " THEN <<>>
    ELSE <<Head(t)>> \o TakeToken(Tail(t))

\* text.split(): the whitespace-delimited tokens; only [0] is ever used.
\* ok = FALSE is the IndexError of indexing an empty list.
SplitFirst(t) ==
    LET s == LStrip(t)
    IN  IF s = <<>> THEN [ok |-> FALSE, val |-> <<>>]
        ELSE [ok |-> TRUE, val |-> TakeToken(s)]

RECURSIVE DigitsVal(_)
DigitsVal(t) ==
    IF t = <<>> THEN 0
    ELSE DigitsVal(SubSeq(t, 1, Len(t) - 1)) * 10 + DigitVal(t[Len(t)])

RECURSIVE Pow10(_)
Pow10(n) == IF n = 0 THEN 1 ELSE 10 * Pow10(n - 1)

\* the fractional digits as a multiple of 1/Scale (digits past the third cut)
FracVal(t) ==
    LET d == IF Len(t) > 3 THEN SubSeq(t, 1, 3) ELSE t
    IN  DigitsVal(d) * Pow10(3 - Len(d))

\* float(text): ok = FALSE is ValueError.  Accepts surrounding blanks, a sign,
\* and digits with at most one point and at least one digit.
ParseFloat(t) ==
    LET s == Strip(t)
        signed == s # <<>> /\ Head(s) \in {"+", "-"}
        body == IF signed THEN Tail(s) ELSE s
        dots == {k \in 1..Len(body) : body[k] = "."}
        wellFormed == /\ \A k \in 1..Len(body) : body[k] \in Digits \cup {"."}
                      /\ Cardinality(dots) <= 1
                      /\ \E k \in 1..Len(body) : body[k] \in Digits
        dot == IF dots = {} THEN Len(body) + 1 ELSE CHOOSE k \in dots : TRUE
        whole == SubSeq(body, 1, dot - 1)
        frac == SubSeq(body, dot + 1, Len(body))
        mag == DigitsVal(whole) * Scale + FracVal(frac)
    IN  IF ~wellFormed THEN [ok |-> FALSE, val |-> 0]
        ELSE [ok |-> TRUE,
              val |-> IF signed /\ Head(s) = "-" THEN 0 - mag ELSE mag]

\* int(text): ok = FALSE is ValueError.  Accepts surrounding blanks, a sign
\* and digits only.
ParseInt(t) ==
    LET s == Strip(t)
        signed == s # <<>> /\ Head(s) \in {"+", "-"}
        body == IF signed THEN Tail(s) ELSE s
        wellFormed == /\ body # <<>>
                      /\ \A k \in 1..Len(body) : body[k] \in Digits
    IN  IF ~wellFormed THEN [ok |-> FALSE, val |-> 0]
        ELSE [ok |-> TRUE,
              val |-> IF signed /\ Head(s) = "-" THEN 0 - DigitsVal(body)
                      ELSE DigitsVal(body)]

(***************************************************************************)
(* Page content.  What a lookup finds is decided by the page, which the    *)
(* program does not control: each lookup draws its outcome here.           *)
(***************************************************************************)
PriceTexts ==
    { <<"Rs", "1", ",", "0", "9", "9">>,
      <<" ", "9", "9", "9", ".", "0", " ">>,
      <<"-", "5">>,
      <<"N", "/", "A">> }

RatingTexts ==
    { <<"4", ".", "5", " ", "out", " ", "of", " ", "5">>,
      <<"4", ".", "0", "1", "3">>,
      <<"9", ".", "5">> }

ReviewTexts ==
    { <<"1", ",", "2", "3", "4", " ", "ratings">>,
      <<"-", "3">>,
      <<"1", "2", ".", "5">> }

StockTexts == { <<" ", "In stock.", " ">> }

\* _wait_and_get_element: "absent" is the TimeoutException turned into None,
\* "raise" any other driver exception, which the method lets through.
\* An element whose .text cannot be read has readable = FALSE.
Outcomes(texts) ==
    { [kind |-> "absent", text |-> <<>>, readable |-> FALSE],
      [kind |-> "raise", text |-> <<>>, readable |-> FALSE],
      [kind |-> "elem", text |-> <<>>, readable |-> FALSE] }
    \cup { [kind |-> "elem", text |-> t, readable |-> TRUE] : t \in texts }

_safe_get_text(e) ==
    IF e.kind = "elem" /\ e.readable THEN Strip(e.text) ELSE <<>>

(***************************************************************************)
(* ProductDetails and the per-field parsers of the two scrapers            *)
(***************************************************************************)
Scrapers == <<"amazon", "flipkart">>

ScraperKeys == {Scrapers[k] : k \in 1..Len(Scrapers)}

PlatformKeys == ScraperKeys \cup {"ebay"}

Platform(key) == IF key = "amazon" THEN "Amazon" ELSE "Flipkart"

Url(key) ==
    CASE key = "amazon" -> "https://www.amazon.in/p"
      [] key = "flipkart" -> "https://www.flipkart.com/p"
      [] OTHER -> "https://www.ebay.com/p"

UNKNOWN == <<"Unknown">>

ProductDetails(platform, url) ==
    [ price |-> 0, stock_status |-> UNKNOWN, rating |-> 0, review_count |-> 0,
      seller |-> UNKNOWN, platform |-> platform, url |-> url,
      timestamp |-> default_timestamp ]

NoDetails == [ platform |-> "none" ]

price_selectors(platform) ==
    IF platform = "Amazon"
    THEN << "span.a-price-whole", "span.a-price[data-a-size=xl] ",
            "div.a-align-center, .aok-align-center" >>
    ELSE << "div.C7fEHH ", "div.UOCQB1", "div.hl05eU .Nx9bqj" >>

\* float(price_text.replace(rupee, '').replace(',', ''))
ParsePrice(text) == ParseFloat(Replace(Replace(text, "Rs"), ","))

\* Amazon: float(rating_text.split()[0]); Flipkart: float(rating_text)
ParseRating(platform, text) ==
    IF platform = "Amazon"
    THEN LET tok == SplitFirst(text)
         IN  IF tok.ok THEN ParseFloat(tok.val) ELSE [ok |-> FALSE, val |-> 0]
    ELSE ParseFloat(text)

\* int(review_text.split()[0].replace(',', ''))
ParseReviewCount(text) ==
    LET tok == SplitFirst(text)
    IN  IF tok.ok THEN ParseInt(Replace(tok.val, ","))
        ELSE [ok |-> FALSE, val |-> 0]

\* Amazon: the availability text when the element is there;
\* Flipkart: "Out of Stock" if the marker element is there, else "In Stock".
StockStatus(platform, e, old) ==
    IF platform = "Amazon"
    THEN IF e.kind = "elem" THEN _safe_get_text(e) ELSE old
    ELSE IF e.kind = "elem" THEN <<"Out of Stock">> ELSE <<"In Stock">>

\* variant of PriceLoopNext: no break after a parsed price
PriceLoopNextNoBreak(parsed, k, n) ==
    IF k = n THEN [pc |-> "stock", sel |-> 1]
    ELSE [pc |-> "price", sel |-> k + 1]

\* The price loop after one probe: break on a parsed price, else the next
\* selector, and the stock step once the list is exhausted.
PriceLoopNext(parsed, k, n) ==
    IF parsed \/ k = n THEN [pc |-> "stock", sel |-> 1]
    ELSE [pc |-> "price", sel |-> k + 1]

\* variant of ExceptReturn: a fresh all-default record
ExceptReturnFresh(d) == ProductDetails("Unknown", "")

\* What the except branch of scrape_product returns.
ExceptReturn(d) == d

\* The first step of a scrape that failed.  A step fails when its lookup
\* raises, or when it ends without a value because the text of an element it
\* found did not parse (ValueError, IndexError).
Fault(first, step, failedNow) ==
    IF first = "none" /\ failedNow THEN step ELSE first

(***************************************************************************)
(* The analysis of analyze_product (lines 214-246)                         *)
(***************************************************************************)
None == "None"

NoValidPrices == "No valid prices found across platforms"

NoReport == [ timestamp |-> -1 ]

\* variants of ValidResults: a filter price >= 0, and no filter at all
ValidResultsNonNegative(rs) == SelectSeq(rs, LAMBDA r : r.price >= 0)

ValidResultsUnfiltered(rs) == rs

\* [r for r in results if r.price > 0]
ValidResults(rs) == SelectSeq(rs, LAMBDA r : r.price > 0)

\* min(seq, key=price): the scan of the builtin keeps the first least item
RECURSIVE MinScan(_, _)
MinScan(rest, best) ==
    IF rest = <<>> THEN best
    ELSE MinScan(Tail(rest),
                 IF Head(rest).price < best.price THEN Head(rest) ELSE best)

\* variant of MinByPrice: a scan that keeps the last least item
RECURSIVE MinScanLast(_, _)
MinScanLast(rest, best) ==
    IF rest = <<>> THEN best
    ELSE MinScanLast(Tail(rest),
                     IF Head(rest).price <= best.price THEN Head(rest)
                     ELSE best)

MinByPriceLast(valid) == MinScanLast(Tail(valid), Head(valid))

MinByPrice(valid) == MinScan(Tail(valid), Head(valid))

\* max(seq, key=rating): the scan of the builtin keeps the first greatest item
RECURSIVE MaxScan(_, _)
MaxScan(rest, best) ==
    IF rest = <<>> THEN best
    ELSE MaxScan(Tail(rest),
                 IF Head(rest).rating > best.rating THEN Head(rest) ELSE best)

\* variant of MaxByRating: a scan that keeps the last greatest item
RECURSIVE MaxScanLast(_, _)
MaxScanLast(rest, best) ==
    IF rest = <<>> THEN best
    ELSE MaxScanLast(Tail(rest),
                     IF Head(rest).rating >= best.rating THEN Head(rest)
                     ELSE best)

MaxByRatingLast(valid) == MaxScanLast(Tail(valid), Head(valid))

MaxByRating(valid) == MaxScan(Tail(valid), Head(valid))

RECURSIVE SumRating(_)
SumRating(rs) == IF rs = <<>> THEN 0 ELSE Head(rs).rating + SumRating(Tail(rs))

\* variant of Round2: the quotient cut to two decimals, not rounded
Round2Truncating(total, n) ==
    {(total \div (n * (Scale \div 100))) * (Scale \div 100)}

\* round(total / n, 2): the results a correctly rounded binary float can
\* give.  total / n is total \div n thousandths and a remainder; off a tie
\* the nearer hundredth, on an exact decimal tie either neighbour (which one
\* depends on the binary representation of the quotient).
Round2(total, n) ==
    LET d == n * (Scale \div 100)
        q == total \div d
        r == total % d
    IN  IF 2 * r < d THEN {q * (Scale \div 100)}
        ELSE IF 2 * r > d THEN {(q + 1) * (Scale \div 100)}
        ELSE {q * (Scale \div 100), (q + 1) * (Scale \div 100)}

\* round(sum(...) / len(valid), 2) if any(r.rating > 0 ...) else 0
AverageRating(valid) ==
    IF \E k \in 1..Len(valid) : valid[k].rating > 0
    THEN Round2(SumRating(valid), Len(valid))
    ELSE {0}

\* The dictionaries analyze_product can return for the list rs at time now.
Analysis(rs, now) ==
    LET base == [ timestamp |-> now, all_results |-> rs, error |-> None ]
        valid == ValidResults(rs)
        best == MinByPrice(valid)
        top == MaxByRating(valid)
    IN  IF valid # <<>>
        THEN { [ best_price |-> [ platform |-> best.platform,
                                  price |-> best.price, url |-> best.url ],
                 highest_rated |-> [ platform |-> top.platform,
                                     rating |-> top.rating,
                                     review_count |-> top.review_count,
                                     url |-> top.url ],
                 average_rating |-> avg ] @@ base
               : avg \in AverageRating(valid) }
        ELSE { [ base EXCEPT !.error = NoValidPrices ] }

(***************************************************************************)
(* State machine                                                           *)
(***************************************************************************)
\* dict arguments: the keys in insertion order, no key twice
UrlMappings ==
    { u \in UNION { [1..n -> PlatformKeys] : n \in 0..MaxUrls } :
        \A a, b \in 1..Len(u) : a # b => u[a] # u[b] }

NoQuit == [ k \in ScraperKeys |-> "none" ]

\* module import (line 34 evaluates the default timestamp), then
\* ProductAnalyzer() (lines 188-192), each scraper launching its driver
Init ==
    /\ clock = 0
    /\ default_timestamp = 0
    /\ session = [ k \in ScraperKeys |-> "open" ]
    /\ opened = [ k \in ScraperKeys |-> 1 ]
    /\ calls = 0
    /\ pc = "idle"
    /\ urls = <<>>
    /\ i = 1
    /\ results = <<>>
    /\ details = NoDetails
    /\ sel = 1
    /\ resolved = <<>>
    /\ failed = "none"
    /\ firstFault = "none"
    /\ constructedAt = <<>>
    /\ j = 1
    /\ quitLog = NoQuit
    /\ report = NoReport
    /\ probes = <<>>

\* variant of Call: every call launches fresh drivers
CallReopening ==
    /\ pc = "idle"
    /\ calls < MaxCalls
    /\ \E u \in UrlMappings : urls' = u
    /\ calls' = calls + 1
    /\ pc' = "loop"
    /\ i' = 1
    /\ results' = <<>>
    /\ constructedAt' = <<>>
    /\ quitLog' = NoQuit
    /\ report' = NoReport
    /\ session' = [ k \in ScraperKeys |-> "open" ]
    /\ opened' = [ k \in ScraperKeys |-> opened[k] + 1 ]
    /\ UNCHANGED << clock, default_timestamp, details, sel, resolved, failed,
                    firstFault, j, probes >>

\* analyze_product(urls) is entered (lines 194-196)
Call ==
    /\ pc = "idle"
    /\ calls < MaxCalls
    /\ \E u \in UrlMappings : urls' = u
    /\ calls' = calls + 1
    /\ pc' = "loop"
    /\ i' = 1
    /\ results' = <<>>
    /\ constructedAt' = <<>>
    /\ quitLog' = NoQuit
    /\ report' = NoReport
    /\ UNCHANGED << clock, default_timestamp, session, opened, details, sel,
                    resolved, failed, firstFault, j, probes >>

\* a platform that has no scraper is passed over (line 200)
LoopSkip ==
    /\ pc = "loop"
    /\ i <= Len(urls)
    /\ urls[i] \notin ScraperKeys
    /\ i' = i + 1
    /\ UNCHANGED << clock, default_timestamp, session, opened, calls, pc, urls,
                    results, details, sel, resolved, failed, firstFault,
                    constructedAt, j,
                    quitLog, report, probes >>

\* scrape_product is entered: details = ProductDetails(platform=, url=)
ScrapeStart ==
    /\ pc = "loop"
    /\ i <= Len(urls)
    /\ urls[i] \in ScraperKeys
    /\ details' = ProductDetails(Platform(urls[i]), Url(urls[i]))
    /\ constructedAt' = Append(constructedAt, clock)
    /\ resolved' = <<>>
    /\ failed' = "none"
    /\ firstFault' = "none"
    /\ probes' = <<>>
    /\ pc' = "get"
    /\ UNCHANGED << clock, default_timestamp, session, opened, calls, urls, i,
                    results, sel, j, quitLog, report >>

\* self.driver.get(url): raises on a session that was quit, and may raise
\* on a live one
ScrapeGet ==
    /\ pc = "get"
    /\ \E ok \in BOOLEAN :
         /\ ok => session[urls[i]] = "open"
         /\ pc' = IF ok THEN "sleep" ELSE "ret"
         /\ failed' = IF ok THEN "none" ELSE "get"
         /\ firstFault' = IF ok THEN "none" ELSE "get"
    /\ UNCHANGED << clock, default_timestamp, session, opened, calls, urls, i,
                    results, details, sel, resolved, constructedAt, j, quitLog,
                    report, probes >>

\* time.sleep(random.uniform(..)): at least two seconds pass
ScrapeSleep ==
    /\ pc = "sleep"
    /\ clock' = clock + 1
    /\ pc' = "price"
    /\ sel' = 1
    /\ UNCHANGED << default_timestamp, session, opened, calls, urls, i,
                    results, details, resolved, failed, firstFault,
                    constructedAt, j,
                    quitLog, report, probes >>

\* one round of the loop over price_selectors
ScrapePrice ==
    /\ pc = "price"
    /\ \E e \in Outcomes(PriceTexts) :
         LET p == ParsePrice(_safe_get_text(e))
             parsed == e.kind = "elem" /\ p.ok
             next == PriceLoopNext(parsed, sel,
                                   Len(price_selectors(details.platform)))
         IN  /\ probes' = Append(probes, e)
             /\ firstFault' =
                  Fault(firstFault, "price",
                        \/ e.kind = "raise"
                        \/ /\ next.pc = "stock"
                           /\ ~parsed
                           /\ \/ e.kind = "elem"
                              \/ \E k \in 1..Len(probes) :
                                    probes[k].kind = "elem")
             /\ IF e.kind = "raise"
                THEN /\ failed' = "price"
                     /\ pc' = "ret"
                     /\ UNCHANGED << details, resolved, sel >>
                ELSE /\ details' = IF parsed
                                   THEN [details EXCEPT !.price = p.val]
                                   ELSE details
                     /\ resolved' = IF parsed
                                    THEN ("price" :> p.val) @@ resolved
                                    ELSE resolved
                     /\ pc' = next.pc
                     /\ sel' = next.sel
                     /\ UNCHANGED failed
    /\ UNCHANGED << clock, default_timestamp, session, opened, calls, urls, i,
                    results, constructedAt, j, quitLog, report >>

\* the stock status (lines 100-102, 157-158)
ScrapeStock ==
    /\ pc = "stock"
    /\ \E e \in Outcomes(StockTexts) :
         /\ firstFault' = Fault(firstFault, "stock", e.kind = "raise")
         /\ IF e.kind = "raise"
            THEN /\ failed' = "stock"
                 /\ pc' = "ret"
                 /\ UNCHANGED << details, resolved >>
            ELSE /\ details' = [details EXCEPT !.stock_status =
                                  StockStatus(details.platform, e, @)]
                 /\ resolved' =
                      IF details.platform = "Amazon" /\ e.kind # "elem"
                      THEN resolved
                      ELSE ("stock_status" :>
                              StockStatus(details.platform, e,
                                          details.stock_status)) @@ resolved
                 /\ pc' = "rating"
                 /\ UNCHANGED failed
    /\ probes' = <<>>
    /\ UNCHANGED << clock, default_timestamp, session, opened, calls, urls, i,
                    results, sel, constructedAt, j, quitLog, report >>

\* the rating (lines 105-111, 161-167)
ScrapeRating ==
    /\ pc = "rating"
    /\ \E e \in Outcomes(RatingTexts) :
         LET p == ParseRating(details.platform, _safe_get_text(e))
             parsed == e.kind = "elem" /\ p.ok
         IN  /\ firstFault' =
                  Fault(firstFault, "rating",
                        e.kind = "raise" \/ (e.kind = "elem" /\ ~p.ok))
             /\ IF e.kind = "raise"
                THEN /\ failed' = "rating"
                     /\ pc' = "ret"
                     /\ UNCHANGED << details, resolved >>
                ELSE /\ details' = IF parsed
                                   THEN [details EXCEPT !.rating = p.val]
                                   ELSE details
                     /\ resolved' = IF parsed
                                    THEN ("rating" :> p.val) @@ resolved
                                    ELSE resolved
                     /\ pc' = "review"
                     /\ UNCHANGED failed
    /\ UNCHANGED << clock, default_timestamp, session, opened, calls, urls, i,
                    results, sel, constructedAt, j, quitLog, report, probes >>

\* the review count (lines 114-120, 170-176)
ScrapeReview ==
    /\ pc = "review"
    /\ \E e \in Outcomes(ReviewTexts) :
         LET p == ParseReviewCount(_safe_get_text(e))
             parsed == e.kind = "elem" /\ p.ok
         IN  /\ firstFault' =
                  Fault(firstFault, "review",
                        e.kind = "raise" \/ (e.kind = "elem" /\ ~p.ok))
             /\ IF e.kind = "raise"
                THEN /\ failed' = "review"
                     /\ UNCHANGED << details, resolved >>
                ELSE /\ details' = IF parsed
                                   THEN [details EXCEPT !.review_count = p.val]
                                   ELSE details
                     /\ resolved' = IF parsed
                                    THEN ("review_count" :> p.val) @@ resolved
                                    ELSE resolved
                     /\ UNCHANGED failed
    /\ pc' = "ret"
    /\ UNCHANGED << clock, default_timestamp, session, opened, calls, urls, i,
                    results, sel, constructedAt, j, quitLog, report, probes >>

\* the record scrape_product returns: line 123, or line 127 after a failure
ReturnValue == IF failed = "none" THEN details ELSE ExceptReturn(details)

\* scrape_product returns (line 123, or 127 from the except branch) and
\* analyze_product appends the record (line 203)
ScrapeReturn ==
    /\ pc = "ret"
    /\ results' = Append(results, ReturnValue)
    /\ i' = i + 1
    /\ pc' = "loop"
    /\ details' = NoDetails
    /\ resolved' = <<>>
    /\ failed' = "none"
    /\ firstFault' = "none"
    /\ sel' = 1
    /\ probes' = <<>>
    /\ UNCHANGED << clock, default_timestamp, session, opened, calls, urls,
                    constructedAt, j, quitLog, report >>

\* the loop over urls.items() is over
LoopEnd ==
    /\ pc = "loop"
    /\ i > Len(urls)
    /\ pc' = "cleanup"
    /\ j' = 1
    /\ UNCHANGED << clock, default_timestamp, session, opened, calls, urls, i,
                    results, details, sel, resolved, failed, firstFault,
                    constructedAt, quitLog, report, probes >>

\* variant of QuitTargets: only the scrapers the call used
QuitUsedOnly(used) ==
    SelectSeq(Scrapers, LAMBDA k : \E m \in 1..Len(used) : used[m] = k)

\* the scrapers whose driver the clean-up loop quits: self.scrapers.values()
QuitTargets(used) == Scrapers

\* one round of the clean-up loop: scraper.driver.quit() under a bare except.
\* quit() ends the session also when it raises.
Cleanup ==
    /\ pc = "cleanup"
    /\ j <= Len(QuitTargets(urls))
    /\ \E raised \in BOOLEAN :
         quitLog' = [quitLog EXCEPT ![QuitTargets(urls)[j]] =
                        IF raised THEN "raised" ELSE "ok"]
    /\ session' = [session EXCEPT ![QuitTargets(urls)[j]] = "quit"]
    /\ j' = j + 1
    /\ UNCHANGED << clock, default_timestamp, opened, calls, pc, urls, i,
                    results, details, sel, resolved, failed, firstFault,
                    constructedAt, report, probes >>

\* lines 214-246: the report is built and returned
Return ==
    /\ pc = "cleanup"
    /\ j > Len(QuitTargets(urls))
    /\ report' \in Analysis(results, clock)
    /\ pc' = "idle"
    /\ results' = <<>>
    /\ i' = 1
    /\ j' = 1
    /\ UNCHANGED << clock, default_timestamp, session, opened, calls, urls,
                    details, sel, resolved, failed, firstFault, constructedAt,
                    quitLog, probes >>

Next ==
    \/ Call
    \/ LoopSkip
    \/ ScrapeStart
    \/ ScrapeGet
    \/ ScrapeSleep
    \/ ScrapePrice
    \/ ScrapeStock
    \/ ScrapeRating
    \/ ScrapeReview
    \/ ScrapeReturn
    \/ LoopEnd
    \/ Cleanup
    \/ Return

Spec == Init /\ [][Next]_vars

(***************************************************************************)
(* Properties                                                              *)
(***************************************************************************)
Built == report # NoReport

ComparativeKeys == {"best_price", "highest_rated", "average_rating"}

\* the indices of the records of rs with a positive price
ValidIndices(rs) == {k \in 1..Len(rs) : rs[k].price > 0}

Abs(x) == IF x < 0 THEN 0 - x ELSE x

\* C1: a returned report has one of two shapes.  No record with price > 0:
\* error is the "No valid prices" message and none of best_price,
\* highest_rated, average_rating is a key.  Some record with price > 0:
\* error is null and all three keys are there.
C1_ReportShape ==
    Built =>
        IF ValidIndices(report.all_results) = {}
        THEN /\ report.error = NoValidPrices
             /\ ComparativeKeys \cap DOMAIN report = {}
        ELSE /\ report.error = None
             /\ ComparativeKeys \subseteq DOMAIN report

\* a first call that scraped two records, one with a negative price and one
\* with the default 0, and returned the error shape
C1_Witness ==
    /\ Built
    /\ calls = 1
    /\ Len(report.all_results) = 2
    /\ report.all_results[1].price < 0
    /\ report.all_results[2].price = 0
    /\ report.error = NoValidPrices

\* C2: when some record has price > 0, best_price gives platform, price and
\* url of a record with price > 0 whose price is least among the records
\* with price > 0, the first such record in the order of the results.
C2_BestPriceFirstMinimum ==
    Built =>
        LET rs == report.all_results
            V == ValidIndices(rs)
        IN  V # {} =>
              /\ "best_price" \in DOMAIN report
              /\ \E k \in V :
                   /\ \A m \in V : rs[k].price <= rs[m].price
                   /\ \A m \in V : m < k => rs[m].price # rs[k].price
                   /\ report.best_price = [ platform |-> rs[k].platform,
                                            price |-> rs[k].price,
                                            url |-> rs[k].url ]

\* two records with the same positive price: the first one is reported
C2_Witness ==
    /\ Built
    /\ Len(report.all_results) = 2
    /\ report.all_results[1].price > 0
    /\ report.all_results[1].price = report.all_results[2].price
    /\ report.best_price.platform = report.all_results[1].platform

\* C3: when some record has price > 0, highest_rated describes a record with
\* price > 0 whose rating is greatest among the records with price > 0, the
\* first such record in the order of the results; a record without a
\* positive price is never reported.
C3_HighestRatedAmongValid ==
    Built =>
        LET rs == report.all_results
            V == ValidIndices(rs)
        IN  V # {} =>
              /\ "highest_rated" \in DOMAIN report
              /\ \E k \in V :
                   /\ \A m \in V : rs[k].rating >= rs[m].rating
                   /\ \A m \in V : m < k => rs[m].rating # rs[k].rating
                   /\ report.highest_rated =
                        [ platform |-> rs[k].platform,
                          rating |-> rs[k].rating,
                          review_count |-> rs[k].review_count,
                          url |-> rs[k].url ]

\* the record with the greatest rating of all has no positive price, and the
\* other record is the one reported
C3_Witness ==
    /\ Built
    /\ Len(report.all_results) = 2
    /\ \E k, m \in 1..2 :
         /\ report.all_results[k].price <= 0
         /\ report.all_results[m].price > 0
         /\ report.all_results[k].rating > report.all_results[m].rating
         /\ report.highest_rated.platform = report.all_results[m].platform
         /\ report.highest_rated.rating = report.all_results[m].rating

RECURSIVE ValidRatingSum(_, _)
ValidRatingSum(rs, k) ==
    IF k = 0 THEN 0
    ELSE ValidRatingSum(rs, k - 1)
           + (IF rs[k].price > 0 THEN rs[k].rating ELSE 0)

\* C4: when some record has price > 0, average_rating is the mean of the
\* ratings of exactly the records with price > 0, rounded to two decimals
\* (a multiple of 0.01 at most 0.005 from the mean), and is 0 when none of
\* those records has rating > 0.
C4_AverageRatingRoundedMean ==
    Built =>
        LET rs == report.all_results
            V == ValidIndices(rs)
            n == Cardinality(V)
            total == ValidRatingSum(rs, Len(rs))
        IN  V # {} =>
              /\ "average_rating" \in DOMAIN report
              /\ IF \E k \in V : rs[k].rating > 0
                 THEN /\ report.average_rating % (Scale \div 100) = 0
                      /\ 2 * Abs(n * report.average_rating - total)
                           <= n * (Scale \div 100)
                 ELSE report.average_rating = 0

\* two records with a positive price whose mean rating is not a multiple of
\* 0.01, so that the reported average is a rounded value
C4_Witness ==
    /\ Built
    /\ Cardinality(ValidIndices(report.all_results)) = 2
    /\ 2 * report.average_rating
         # ValidRatingSum(report.all_results, 2)

ScrapeSteps == {"get", "sleep", "price", "stock", "rating", "review", "ret"}

\* C5: every scraped record has price >= 0, 0 <= rating <= 5 and
\* review_count >= 0, whatever text the page elements carry.
C5_RecordDomains ==
    \A k \in 1..Len(results) :
        /\ results[k].price >= 0
        /\ results[k].rating >= 0
        /\ results[k].rating <= 5 * Scale
        /\ results[k].review_count >= 0

\* a probe whose element text parses as a price
Parses(e) == e.kind = "elem" /\ ParsePrice(_safe_get_text(e)).ok

\* C6: the price locators are probed in list order; the price is the value
\* of the first probe that found an element whose text parses, no locator is
\* probed after it; absent elements and unparseable texts are passed over,
\* and when no probe succeeds the price stays 0.
C6_PriceFirstParseable ==
    LET n == Len(price_selectors(details.platform))
        S == {k \in 1..Len(probes) : Parses(probes[k])}
    IN  /\ pc = "price" =>
              /\ Len(probes) = sel - 1
              /\ sel <= n
              /\ S = {}
              /\ details.price = 0
        /\ pc = "stock" =>
              IF S # {}
              THEN /\ S = {Len(probes)}
                   /\ details.price
                        = ParsePrice(_safe_get_text(probes[Len(probes)])).val
              ELSE /\ Len(probes) = n
                   /\ details.price = 0

\* L1 found with an unparseable text, L2 absent, L3 found and parsed: the
\* price is the value of L3
C6_Witness ==
    /\ pc = "stock"
    /\ Len(probes) = 3
    /\ probes[1].kind = "elem" /\ probes[1].readable /\ ~Parses(probes[1])
    /\ probes[2].kind = "absent"
    /\ Parses(probes[3])
    /\ details.price = ParsePrice(_safe_get_text(probes[3])).val
    /\ details.price > 0

\* C7: when the report is built, driver.quit() has been attempted on the
\* session of every configured scraper, used by the call or not; a quit that
\* raised does not stop the quits after it; and no scrape runs after a quit
\* of the same call.
C7_AllSessionsReleased ==
    /\ Built => \A k \in ScraperKeys :
                    quitLog[k] # "none" /\ session[k] = "quit"
    /\ pc \in ScrapeSteps \cup {"loop"} =>
          \A k \in ScraperKeys : quitLog[k] = "none"
    /\ pc = "cleanup" =>
          \A m \in 1..Len(Scrapers) :
              (m < j) <=> (quitLog[Scrapers[m]] # "none")

\* a first call that names flipkart only: the quit of the unused Amazon
\* session raised, and the Flipkart session was still quit after it
C7_Witness ==
    /\ Built
    /\ calls = 1
    /\ urls = <<"flipkart">>
    /\ quitLog["amazon"] = "raised"
    /\ quitLog["flipkart"] = "ok"
    /\ \A k \in ScraperKeys : session[k] = "quit"

DataFields == {"price", "stock_status", "rating", "review_count", "seller"}

Default(f) == IF f \in {"stock_status", "seller"} THEN UNKNOWN ELSE 0

\* the position in scrape_product of a step, and of the step that sets a field
StepOrder(step) ==
    CASE step = "get" -> 1
      [] step = "price" -> 2
      [] step \in {"stock", "stock_status"} -> 3
      [] step = "rating" -> 4
      [] step \in {"review", "review_count"} -> 5
      [] OTHER -> 6

\* C8 as stated: if any step of a scrape fails (navigation, a lookup, a
\* parse), the returned record has the scraper's platform and the url, and
\* every field that was not resolved before the failure holds its default.
C8_DefaultsAfterAnyFailure ==
    (pc = "ret" /\ firstFault # "none") =>
        /\ ReturnValue.platform = Platform(urls[i])
        /\ ReturnValue.url = Url(urls[i])
        /\ \A f \in DataFields :
              StepOrder(f) >= StepOrder(firstFault)
                 => ReturnValue[f] = Default(f)

\* C8 as amended: scrape_product always returns a record with the scraper's
\* platform and the url, in which a field holds the value its step resolved
\* and else its default.  An exception that reaches the handler (from
\* navigation or from a lookup) ends the sequence: no field of that step or
\* of a later step is resolved.  A text that does not parse leaves only its
\* own probe without effect, and the later steps still run.
C8_PartialRecordReturned ==
    /\ failed # "none" => pc = "ret"
    /\ pc = "ret" =>
          /\ ReturnValue.platform = Platform(urls[i])
          /\ ReturnValue.url = Url(urls[i])
          /\ \A f \in DataFields :
                ReturnValue[f] = IF f \in DOMAIN resolved THEN resolved[f]
                                 ELSE Default(f)
          /\ failed # "none" =>
                \A f \in DOMAIN resolved : StepOrder(f) < StepOrder(failed)

\* the rating lookup raised after the price had been resolved: the record
\* returned keeps the price and has the default rating and review count
C8_Witness ==
    /\ pc = "ret"
    /\ failed = "rating"
    /\ "price" \in DOMAIN resolved
    /\ ReturnValue.price > 0
    /\ ReturnValue.price = resolved["price"]
    /\ ReturnValue.rating = 0
    /\ ReturnValue.review_count = 0

\* C9: the timestamp of a record is the clock value at which the record was
\* constructed.
C9_TimestampIsConstructionTime ==
    /\ \A k \in 1..Len(results) : results[k].timestamp = constructedAt[k]
    /\ pc \in ScrapeSteps =>
          details.timestamp = constructedAt[Len(constructedAt)]

\* C10: a driver is launched once per scraper and never again; in every call
\* after the first, each scrape fails at navigation and returns the
\* all-default record, and the report has the "No valid prices" error and
\* none of best_price, highest_rated, average_rating.
C10_LaterCallsFindNothing ==
    /\ \A k \in ScraperKeys : opened[k] = 1
    /\ calls >= 2 =>
          /\ pc \notin {"sleep", "price", "stock", "rating", "review"}
          /\ pc = "ret" =>
                /\ failed = "get"
                /\ ReturnValue
                     = ProductDetails(Platform(urls[i]), Url(urls[i]))
          /\ Built =>
                /\ report.error = NoValidPrices
                /\ ComparativeKeys \cap DOMAIN report = {}
                /\ \A k \in 1..Len(report.all_results) :
                      report.all_results[k]
                        = ProductDetails(report.all_results[k].platform,
                                         report.all_results[k].url)

\* a second call that scraped both platforms and returned its report
C10_Witness ==
    /\ calls = 2
    /\ Built
    /\ Len(report.all_results) = 2
    /\ report.error = NoValidPrices

====
